---- MODULE Spec2Model ----
(***************************************************************************)
(* Model of airplay/cli.py: the device resolver (get_airplay_device) and   *)
(* the photo, screen and video commands that drive a receiver.             *)
(*                                                                         *)
(* Python values are encoded as follows.                                   *)
(*   - a str is a sequence of one-character strings (<<"h", ":", "7">>);   *)
(*   - an optional value is a sequence of length at most one: None is      *)
(*     <<>>, and a present value x is <<x>>;                               *)
(*   - receiver times are whole numbers of seconds.                        *)
(***************************************************************************)
EXTENDS Integers, Sequences, FiniteSets, TLC

VARIABLES
    pc,        \* position of the running command
    cmd,       \* the command invoked: "photo", "screen", "video" or "" before
    device,    \* the --device argument (optional str)
    devices,   \* what AirPlay.find(fast=True) answered, <<>> when not called
    finds,     \* the fast flags of the discovery calls, in order
    ap,        \* the receiver handle (optional)
    error,     \* the exception printed by traceback.print_exc (optional)
    exitcode,  \* the exit status of the process (optional)
    path,      \* the <path/url> argument (video: replaced by the served url)
    data,      \* photo, screen: the bytes read (optional)
    seconds,   \* photo, screen: the --time option (the parameter `duration`)
    i,         \* photo: ticks of the hold slept so far
    elapsed,   \* screen: round(time.time()) - start at the last reading
    shots,     \* screen: captures written to screen.png so far
    state,     \* video: the playback state
    duration,  \* video: the duration (optional number)
    position,  \* video: the --position option, then the position (optional)
    ev,        \* video: the event of the current pass of the drain (optional)
    info,      \* video: the answer of the last scrub (optional)
    bar,       \* video: the progress bar, its label and pos as last set
    calls,     \* the operations issued to the receiver, in order
    iter,      \* video: iterations of the monitor loop completed
    evcount,   \* video: events taken in the current drain
    sawStopped,\* video: the current drain has processed a 'stopped' event
    carried,   \* video: the state of the last event of the current drain that had one
    reason     \* video: why the loop ended, "" while it has not

\* ------------------------------------------------------------------ bounds

MaxLen == 5

MaxDevices == 3

\* ------------------------------------------------------------------ values

None == <<>>

Some(x) == <<x>>

TheVal(o) == o[1]

Chars == {"h", ":", "7", "0", "-", " "}

Digits == {"0", "1", "2", "3", "4", "5", "6", "7", "8", "9"}

DigitVal(c) ==
    CASE c = "0" -> 0 [] c = "1" -> 1 [] c = "2" -> 2 [] c = "3" -> 3
      [] c = "4" -> 4 [] c = "5" -> 5 [] c = "6" -> 6 [] c = "7" -> 7
      [] c = "8" -> 8 [] c = "9" -> 9

StringsUpTo(n) == UNION {[1..k -> Chars] : k \in 0..n}

Addresses == StringsUpTo(MaxLen)

\* AirPlay(host, port): a handle for a manually entered address; it has no
\* display name.
AirPlay(host, port) == [name |-> None, host |-> host, port |-> port]

Receivers ==
    { [name |-> Some(<<"t", "v">>), host |-> <<"h">>, port |-> 7000],
      [name |-> Some(<<"t", "v">>), host |-> <<"7">>, port |-> 7] }

DeviceLists == UNION {[1..k -> Receivers] : k \in 0..MaxDevices}

\* What AirPlay.find may answer in a call for hostport; <<>> stands for the
\* answer that is never asked for.
Answers(hostport) == IF hostport = None THEN DeviceLists ELSE {<<>>}

\* ------------------------------------------------------------------ str / int

\* The index of the first sep in s, or 0.
RECURSIVE FindFrom(_, _, _)
FindFrom(s, sep, k) ==
    IF k > Len(s) THEN 0
    ELSE IF s[k] = sep THEN k
    ELSE FindFrom(s, sep, k + 1)

\* The index of the last sep in s, or 0.
RECURSIVE FindLast(_, _, _)
FindLast(s, sep, k) ==
    IF k < 1 THEN 0
    ELSE IF s[k] = sep THEN k
    ELSE FindLast(s, sep, k - 1)

SplitLast(s) ==
    LET k == FindLast(s, ":", Len(s))
    IN  IF k = 0 THEN <<s>>
        ELSE <<SubSeq(s, 1, k - 1), SubSeq(s, k + 1, Len(s))>>

\* hostport.split(':', 1): at most one split, at the first colon.
Split1(s) ==
    LET k == FindFrom(s, ":", 1)
    IN  IF k = 0 THEN <<s>>
        ELSE <<SubSeq(s, 1, k - 1), SubSeq(s, k + 1, Len(s))>>

\* str.strip() of blanks, as int() does before it parses.
RECURSIVE LStrip(_)
LStrip(s) == IF s # <<>> /\ Head(s) = " " THEN LStrip(Tail(s)) ELSE s

RECURSIVE RStrip(_)
RStrip(s) ==
    IF s # <<>> /\ s[Len(s)] = " " THEN RStrip(SubSeq(s, 1, Len(s) - 1)) ELSE s

RECURSIVE DigitsVal(_, _)
DigitsVal(s, acc) ==
    IF s = <<>> THEN acc ELSE DigitsVal(Tail(s), 10 * acc + DigitVal(Head(s)))

AllDigits(s) == s # <<>> /\ \A k \in 1..Len(s) : s[k] \in Digits

\* int(text): blanks around, an optional sign, then decimal digits; anything
\* else raises ValueError (None here).
int(text) ==
    LET t == RStrip(LStrip(text))
        signed == t # <<>> /\ Head(t) \in {"-", "+"}
        body == IF signed THEN Tail(t) ELSE t
    IN  IF ~AllDigits(body) THEN None
        ELSE IF signed /\ Head(t) = "-" THEN Some(0 - DigitsVal(body, 0))
        ELSE Some(DigitsVal(body, 0))

\* ------------------------------------------------------------------ resolver

DefaultPort == 7000

\* lines 17-24: the explicit address.  Unpacking a split of one part and
\* int() of a non-number both raise ValueError, caught by the same handler.
ParseHostPortLast(hostport) ==
    LET parts == SplitLast(hostport)
    IN  IF Len(parts) = 2 /\ int(parts[2]) # None
        THEN AirPlay(parts[1], TheVal(int(parts[2])))
        ELSE AirPlay(hostport, DefaultPort)

ParseHostPortWholeHost(hostport) ==
    LET parts == Split1(hostport)
    IN  IF Len(parts) = 2 /\ int(parts[2]) # None
        THEN AirPlay(hostport, TheVal(int(parts[2])))
        ELSE AirPlay(hostport, DefaultPort)

ParseHostPort(hostport) ==
    LET parts == Split1(hostport)
    IN  IF Len(parts) = 2 /\ int(parts[2]) # None
        THEN AirPlay(parts[1], TheVal(int(parts[2])))
        ELSE AirPlay(hostport, DefaultPort)

\* lines 33-39: the message of the RuntimeError, one line per device.
AmbiguousError(found) ==
    [type |-> "RuntimeError",
     lines |-> [k \in 1..Len(found) |->
                   <<found[k].name, found[k].host, found[k].port>>]]

SelectFirst(found) ==
    IF Len(found) = 0 THEN [ap |-> None, raised |-> None]
    ELSE [ap |-> Some(found[1]), raised |-> None]

\* lines 28-39: the choice among the discovered devices.
Select(found) ==
    IF Len(found) = 0 THEN [ap |-> None, raised |-> None]
    ELSE IF Len(found) = 1 THEN [ap |-> Some(found[1]), raised |-> None]
    ELSE [ap |-> None, raised |-> Some(AmbiguousError(found))]

\* get_airplay_device(hostport), where found is what AirPlay.find answers if
\* it is called.  The result names the handle returned or the exception
\* raised, and the discovery calls made.
get_airplay_device(hostport, found) ==
    IF hostport # None
    THEN [ap |-> Some(ParseHostPort(TheVal(hostport))), raised |-> None,
          finds |-> <<>>, devices |-> <<>>]
    ELSE [ap |-> Select(found).ap, raised |-> Select(found).raised,
          finds |-> <<TRUE>>, devices |-> found]


\* ------------------------------------------------------------------ inputs

MaxSeconds == 2

MaxIter == 1

MaxEvents == 2

MaxStep == 4

MaxFrames == 2

MaxSecs == 3700

DeviceArgs == {None, Some(<<"h", ":", "7">>)}

PhotoPaths == {"photo.png", "http://host/photo.png", "missing.png"}

VideoPaths == {"movie.mp4", "http://host/movie.mp4"}

\* What is on the local disk: os.path.exists(path) (and isfile).
Exists(p) == p \in {"photo.png", "movie.mp4"}

StartsWithHttp(p) == p \in {"http://host/photo.png", "http://host/movie.mp4"}

\* ap.serve(path): the url under which the local file is exposed.
Serve(p) == "http://local/movie.mp4"

\* The --position option.
StartPositions == {0, 10}

\* The optional fields of an event.
EventDurations == {None, Some(100)}

EventPositions == {None, Some(10)}

\* The answers of a scrub: live, not yet known (duration 0), past the end.
Infos ==
    { [duration |-> 100, position |-> 20], [duration |-> 0, position |-> 0],
      [duration |-> 0, position |-> 20], [duration |-> 20, position |-> 100] }

\* 'buffering' stands for every state name the monitor does not know.
StateNames == {"loading", "playing", "paused", "stopped", "buffering"}

Events ==
    [state : {None} \cup {Some(s) : s \in StateNames},
     duration : EventDurations, position : EventPositions]

\* click.IntRange(10, 999999, clamp=True)
ScreenMin == 10

ScreenMax == 999999

Clamp(t) == IF t < ScreenMin THEN ScreenMin ELSE IF t > ScreenMax THEN ScreenMax ELSE t

ScreenSeconds == {Clamp(t) : t \in {0, ScreenMin + 1}}

\* ------------------------------------------------------------------ display

Capitalize(s) ==
    CASE s = "loading" -> "Loading" [] s = "playing" -> "Playing"
      [] s = "paused" -> "Paused" [] s = "stopped" -> "Stopped"
      [] s = "buffering" -> "Buffering"

DigitChar(d) ==
    CASE d = 0 -> "0" [] d = 1 -> "1" [] d = 2 -> "2" [] d = 3 -> "3"
      [] d = 4 -> "4" [] d = 5 -> "5" [] d = 6 -> "6" [] d = 7 -> "7"
      [] d = 8 -> "8" [] d = 9 -> "9"

RECURSIVE Decimal(_)
Decimal(n) == IF n < 10 THEN <<DigitChar(n)>> ELSE Decimal(n \div 10) \o <<DigitChar(n % 10)>>

\* "%02d" % n, for n >= 0: at least two digits, padded with a zero.
Fmt02d(n) == IF n < 10 THEN <<"0">> \o Decimal(n) ELSE Decimal(n)

\* humanize_seconds(secs), for a whole number of seconds.
HumanizeMinutesUnreduced(secs) ==
    LET m == secs \div 60
        s == secs % 60
        h == m \div 60
    IN  Fmt02d(h) \o <<":">> \o Fmt02d(m) \o <<":">> \o Fmt02d(s)

humanize_seconds(secs) ==
    LET m0 == secs \div 60
        s == secs % 60
        h == m0 \div 60
        m == m0 % 60
    IN  Fmt02d(h) \o <<":">> \o Fmt02d(m) \o <<":">> \o Fmt02d(s)

\* lines 195-198: int((position / duration) * 100), 0 on ZeroDivisionError.
\* position is a float (the option has type=float, the receiver reports
\* reals), so the division is a true division; the quotients of the times of Infos
\* and Events are exact enough for int() to give the truncated exact value.
PercentUndivided(pos, dur) == IF dur = 0 THEN 0 ELSE pos * 100

PercentFullWhenUnknown(pos, dur) == IF dur = 0 THEN 100 ELSE (pos * 100) \div dur

Percent(pos, dur) == IF dur = 0 THEN 0 ELSE (pos * 100) \div dur

\* ------------------------------------------------------------------ the monitor's steps

\* lines 169-178: one pass of the drain over event e; pb is the record of
\* state, duration and position.
ProcessEventAdoptsTimes(e, pb) ==
    IF e.state = None THEN [pb EXCEPT !.duration = e.duration, !.position = e.position]
    ELSE IF e.state = Some("playing")
    THEN [state |-> "playing", duration |-> e.duration, position |-> e.position]
    ELSE [pb EXCEPT !.state = TheVal(e.state)]

ProcessEventAdoptsAlways(e, pb) ==
    IF e.state = None THEN pb
    ELSE [state |-> TheVal(e.state), duration |-> e.duration, position |-> e.position]

ProcessEventKeepsStopped(e, pb) ==
    IF e.state = None \/ pb.state = "stopped" THEN pb
    ELSE IF e.state = Some("playing")
    THEN [state |-> "playing", duration |-> e.duration, position |-> e.position]
    ELSE [pb EXCEPT !.state = TheVal(e.state)]

ProcessEvent(e, pb) ==
    IF e.state = None THEN pb
    ELSE IF e.state = Some("playing")
    THEN [state |-> "playing", duration |-> e.duration, position |-> e.position]
    ELSE [pb EXCEPT !.state = TheVal(e.state)]

\* line 180: the test that ends the loop.
StopsLoopNever(st) == FALSE

StopsLoop(st) == st = "stopped"

\* line 185: the test that polls.
Polls(st) == st = "playing"

\* lines 187-188: the poll's answer replaces duration and position.
AdoptInfoKeepsPosition(answer, pb) ==
    [pb EXCEPT !.duration = Some(answer.duration)]

AdoptInfo(answer, pb) ==
    [pb EXCEPT !.duration = Some(answer.duration), !.position = Some(answer.position)]

\* line 190
ShowsTimes(st) == st \in {"playing", "paused"}

\* lines 191-192: humanize_seconds(None) raises TypeError.
RenderRaises(pb) == ShowsTimes(pb.state) /\ (pb.position = None \/ pb.duration = None)

\* lines 183, 190-198: the label and pos of the bar; b is the bar before.
Draw(pb, b) ==
    IF ShowsTimes(pb.state)
    THEN [label |-> <<Capitalize(pb.state), humanize_seconds(TheVal(pb.position)),
                      humanize_seconds(TheVal(pb.duration))>>,
          pos |-> Percent(TheVal(pb.position), TheVal(pb.duration))]
    ELSE [label |-> <<Capitalize(pb.state)>>, pos |-> b.pos]

\* line 93: `time > 0` compares the module time with 0.  CPython 2 (the
\* interpreter of urllib.urlopen) orders a number before any other object.
TimeModuleGreaterThanZero == TRUE

\* line 93: the test before the hold and the stop; secs is not read.
HoldsAndStopsNever(secs) == FALSE

HoldsAndStops(secs) == TimeModuleGreaterThanZero

\* lines 205-207: the handler of KeyboardInterrupt issues nothing.
OnInterruptStops == <<<<"stop">>>>

OnInterrupt == <<>>

\* ------------------------------------------------------------------ state

vars ==
    <<pc, cmd, device, devices, finds, ap, error, exitcode, path, data, seconds,
      i, elapsed, shots, state, duration, position, ev, info, bar,
      calls, iter, evcount, sawStopped, carried, reason>>

resolverVars == <<device, devices, finds, ap, error>>

photoVars == <<data, seconds, i>>

screenVars == <<elapsed, shots>>

videoVars ==
    <<state, duration, position, ev, info, bar, iter, evcount, sawStopped, carried, reason>>

\* sys.exit(-1)
ExitFailure == -1

\* A normal return, and `raise SystemExit` without a code.
ExitSuccess == 0

\* An exception that nothing catches.
ExitTraceback == 1

\* The record of state, duration and position the monitor keeps.
Playback == [state |-> state, duration |-> duration, position |-> position]

Idle ==
    /\ cmd = ""
    /\ devices = <<>>
    /\ finds = <<>>
    /\ ap = None
    /\ error = None
    /\ exitcode = None
    /\ path = ""
    /\ data = None
    /\ seconds = 0
    /\ i = 0
    /\ elapsed = 0
    /\ shots = 0
    /\ state = ""
    /\ duration = None
    /\ ev = None
    /\ info = None
    /\ bar = [label |-> <<>>, pos |-> 0]
    /\ calls = <<>>
    /\ iter = 0
    /\ evcount = 0
    /\ sawStopped = FALSE
    /\ carried = None
    /\ reason = ""

Init == pc = "start" /\ device = None /\ position = None /\ Idle

ConnectExitsZero(d, found, next) ==
    LET r == get_airplay_device(d, found)
    IN  /\ device' = d
        /\ devices' = r.devices
        /\ finds' = finds \o r.finds
        /\ error' = r.raised
        /\ ap' = r.ap
        /\ IF r.ap = None
           THEN pc' = "done" /\ exitcode' = Some(ExitSuccess)
           ELSE pc' = next /\ exitcode' = None

\* lines 83-90, 112-119, 145-152: resolve the device; the exception of
\* get_airplay_device is printed, and no handle ends the command.
Connect(d, found, next) ==
    LET r == get_airplay_device(d, found)
    IN  /\ device' = d
        /\ devices' = r.devices
        /\ finds' = finds \o r.finds
        /\ error' = r.raised
        /\ ap' = r.ap
        /\ IF r.ap = None
           THEN pc' = "done" /\ exitcode' = Some(ExitFailure)
           ELSE pc' = next /\ exitcode' = None

\* ------------------------------------------------------------------ photo

\* lines 73-77: the bytes of the photo, None when it is neither a url nor a file.
ReadPhoto(p) == IF StartsWithHttp(p) \/ Exists(p) THEN Some(p) ELSE None

\* lines 71-90
PhotoBegin ==
    /\ pc = "start"
    /\ \E p \in PhotoPaths, d \in DeviceArgs, t \in 0..MaxSeconds :
       \E found \in Answers(d) :
         /\ cmd' = "photo"
         /\ path' = p
         /\ seconds' = t
         /\ data' = ReadPhoto(p)
         /\ IF ReadPhoto(p) = None
            THEN /\ pc' = "done"
                 /\ exitcode' = Some(ExitFailure)
                 /\ UNCHANGED <<device, devices, finds, ap, error>>
            ELSE Connect(d, found, "photo_send")
    /\ UNCHANGED <<i, elapsed, shots, calls>>
    /\ UNCHANGED videoVars

\* lines 92-93
PhotoSend ==
    /\ pc = "photo_send"
    /\ calls' = Append(calls, <<"photo", TheVal(data)>>)
    /\ IF HoldsAndStops(seconds)
       THEN pc' = "photo_hold" /\ exitcode' = exitcode
       ELSE pc' = "done" /\ exitcode' = Some(ExitSuccess)
    /\ UNCHANGED <<cmd, path, elapsed, shots>>
    /\ UNCHANGED resolverVars
    /\ UNCHANGED photoVars
    /\ UNCHANGED videoVars

\* lines 94-96: one pass over range(0, duration)
PhotoTick ==
    /\ pc = "photo_hold"
    /\ i < seconds
    /\ i' = i + 1
    /\ UNCHANGED <<pc, cmd, exitcode, path, data, seconds, elapsed, shots, calls>>
    /\ UNCHANGED resolverVars
    /\ UNCHANGED videoVars

\* line 97, after the range is exhausted
PhotoStop ==
    /\ pc = "photo_hold"
    /\ i >= seconds
    /\ calls' = Append(calls, <<"stop">>)
    /\ pc' = "done"
    /\ exitcode' = Some(ExitSuccess)
    /\ UNCHANGED <<cmd, path, elapsed, shots>>
    /\ UNCHANGED resolverVars
    /\ UNCHANGED photoVars
    /\ UNCHANGED videoVars

\* ------------------------------------------------------------------ screen

ScreenContinuesInclusive(el, secs) == el <= secs

\* line 125: the test of the loop, on the clock as read for it.
ScreenContinues(el, secs) == el < secs

\* lines 103-124
ScreenBegin ==
    /\ pc = "start"
    /\ \E d \in DeviceArgs, t \in ScreenSeconds :
       \E found \in Answers(d) :
         /\ cmd' = "screen"
         /\ seconds' = t
         /\ Connect(d, found, "screen_loop")
    /\ UNCHANGED <<path, data, i, elapsed, shots, calls>>
    /\ UNCHANGED videoVars

\* lines 125-133: the clock reads less than duration after start; a frame is
\* captured, read and sent, and the clock is read again, dt later.
ScreenFrame ==
    /\ pc = "screen_loop"
    /\ ScreenContinues(elapsed, seconds)
    /\ shots' = shots + 1
    /\ data' = Some(<<"screen.png", shots + 1>>)
    /\ calls' = Append(calls, <<"photo", <<"screen.png", shots + 1>>>>)
    /\ \E dt \in (IF shots < MaxFrames THEN 0 ELSE 1)..MaxStep : elapsed' = elapsed + dt
    /\ UNCHANGED <<pc, cmd, exitcode, path, seconds, i>>
    /\ UNCHANGED resolverVars
    /\ UNCHANGED videoVars

\* lines 125, 134
ScreenStop ==
    /\ pc = "screen_loop"
    /\ ~ScreenContinues(elapsed, seconds)
    /\ calls' = Append(calls, <<"stop">>)
    /\ pc' = "done"
    /\ exitcode' = Some(ExitSuccess)
    /\ UNCHANGED <<cmd, path, data, seconds, i, elapsed, shots>>
    /\ UNCHANGED resolverVars
    /\ UNCHANGED videoVars

\* ------------------------------------------------------------------ video

InLoop == pc \in {"video_events", "video_drain", "video_scrub", "video_render", "video_sleep"}

FreshPlaybackPlaying(start) ==
    [state |-> "playing", duration |-> Some(0), position |-> Some(start)]

\* lines 139-141, 154-155: what the session starts with; position is the
\* parameter that holds the --position option, and is not assigned.
FreshPlayback(start) ==
    [state |-> "loading", duration |-> Some(0), position |-> Some(start)]

\* lines 141-155
VideoBegin ==
    /\ pc = "start"
    /\ \E p \in VideoPaths, d \in DeviceArgs, start \in StartPositions :
       \E found \in Answers(d) :
         /\ cmd' = "video"
         /\ path' = p
         /\ position' = FreshPlayback(start).position
         /\ Connect(d, found, "video_play")
         /\ IF get_airplay_device(d, found).ap = None
            THEN UNCHANGED <<state, duration>>
            ELSE /\ state' = FreshPlayback(start).state
                 /\ duration' = FreshPlayback(start).duration
    /\ UNCHANGED <<calls, ev, info, bar, iter, evcount, sawStopped, carried, reason>>
    /\ UNCHANGED photoVars
    /\ UNCHANGED screenVars

ServeCallsNever(p) == <<>>

\* lines 158-159: the calls made to expose the locator, none unless it names
\* a file on the local disk.
ServeCalls(p) == IF Exists(p) THEN <<<<"serve", p>>>> ELSE <<>>

\* lines 158-159: the locator handed to play.
ServedLocator(p) == IF Exists(p) THEN Serve(p) ELSE p

\* lines 158-165: serve a local file, play, and enter the try block
VideoPlay ==
    /\ pc = "video_play"
    /\ path' = ServedLocator(path)
    /\ calls' = calls \o ServeCalls(path)
                      \o <<<<"play", ServedLocator(path), TheVal(position)>>>>
    /\ pc' = "video_events"
    /\ UNCHANGED <<cmd, exitcode>>
    /\ UNCHANGED resolverVars
    /\ UNCHANGED photoVars
    /\ UNCHANGED screenVars
    /\ UNCHANGED videoVars

\* line 168: ap.events(block=False), the start of a drain
VideoEvents ==
    /\ pc = "video_events"
    /\ calls' = Append(calls, <<"events">>)
    /\ pc' = "video_drain"
    /\ evcount' = 0
    /\ ev' = None
    /\ sawStopped' = FALSE
    /\ carried' = None
    /\ UNCHANGED <<cmd, exitcode, path, state, duration, position, info, bar, iter,
                   reason>>
    /\ UNCHANGED resolverVars
    /\ UNCHANGED photoVars
    /\ UNCHANGED screenVars

\* lines 168-178: one pass of the drain, over the next buffered event
VideoEvent ==
    /\ pc = "video_drain"
    /\ evcount < MaxEvents
    /\ \E e \in Events :
         LET pb == ProcessEvent(e, Playback)
         IN  /\ ev' = Some(e)
             /\ state' = pb.state
             /\ duration' = pb.duration
             /\ position' = pb.position
             /\ sawStopped' = (sawStopped \/ e.state = Some("stopped"))
             /\ carried' = IF e.state = None THEN carried ELSE e.state
    /\ evcount' = evcount + 1
    /\ UNCHANGED <<pc, cmd, exitcode, path, info, bar, calls, iter, reason>>
    /\ UNCHANGED resolverVars
    /\ UNCHANGED photoVars
    /\ UNCHANGED screenVars

\* lines 205-207: KeyboardInterrupt, raised at line 181 or by the operator
Interrupted(why) ==
    /\ calls' = calls \o OnInterrupt
    /\ ap' = None
    /\ pc' = "done"
    /\ exitcode' = Some(ExitSuccess)
    /\ reason' = why

\* lines 168, 180-185: the events are exhausted; stop, or label the bar
VideoDrained ==
    /\ pc = "video_drain"
    /\ IF StopsLoop(state)
       THEN /\ Interrupted("stopped")
            /\ UNCHANGED bar
       ELSE /\ bar' = [bar EXCEPT !.label = <<Capitalize(state)>>]
            /\ pc' = IF Polls(state) THEN "video_scrub" ELSE "video_render"
            /\ UNCHANGED <<ap, exitcode, calls, reason>>
    /\ ev' = None
    /\ UNCHANGED <<cmd, device, devices, finds, error, path, state, duration, position,
                   info, iter, evcount, sawStopped, carried>>
    /\ UNCHANGED photoVars
    /\ UNCHANGED screenVars

\* lines 186-188
VideoScrub ==
    /\ pc = "video_scrub"
    /\ \E answer \in Infos :
         LET pb == AdoptInfo(answer, Playback)
         IN  /\ info' = Some(answer)
             /\ duration' = pb.duration
             /\ position' = pb.position
    /\ calls' = Append(calls, <<"scrub">>)
    /\ pc' = "video_render"
    /\ UNCHANGED <<cmd, exitcode, path, state, ev, bar, iter, evcount,
                   sawStopped, carried, reason>>
    /\ UNCHANGED resolverVars
    /\ UNCHANGED photoVars
    /\ UNCHANGED screenVars

\* lines 190-201: the TypeError of humanize_seconds(None) leaves the command
VideoRender ==
    /\ pc = "video_render"
    /\ IF RenderRaises(Playback)
       THEN /\ pc' = "done"
            /\ exitcode' = Some(ExitTraceback)
            /\ reason' = "error"
            /\ UNCHANGED bar
       ELSE /\ bar' = Draw(Playback, bar)
            /\ pc' = "video_sleep"
            /\ UNCHANGED <<exitcode, reason>>
    /\ UNCHANGED <<cmd, path, state, duration, position, ev, info, calls, iter,
                   evcount, sawStopped, carried>>
    /\ UNCHANGED resolverVars
    /\ UNCHANGED photoVars
    /\ UNCHANGED screenVars

\* line 203, and back to line 167
VideoSleep ==
    /\ pc = "video_sleep"
    /\ iter < MaxIter
    /\ iter' = iter + 1
    /\ pc' = "video_events"
    /\ UNCHANGED <<cmd, exitcode, path, state, duration, position, ev, info, bar,
                   calls, evcount, sawStopped, carried, reason>>
    /\ UNCHANGED resolverVars
    /\ UNCHANGED photoVars
    /\ UNCHANGED screenVars

\* The operator's interrupt, at any point of the try block (lines 166-203)
VideoCancel ==
    /\ InLoop
    /\ Interrupted("cancelled")
    /\ UNCHANGED <<cmd, device, devices, finds, error, path, state, duration, position,
                   ev, info, bar, iter, evcount, sawStopped, carried>>
    /\ UNCHANGED photoVars
    /\ UNCHANGED screenVars

\* ------------------------------------------------------------------ specifications

Next ==
    \/ PhotoBegin
    \/ PhotoSend
    \/ PhotoTick
    \/ PhotoStop
    \/ ScreenBegin
    \/ ScreenFrame
    \/ ScreenStop
    \/ VideoBegin
    \/ VideoPlay
    \/ VideoEvents
    \/ VideoEvent
    \/ VideoDrained
    \/ VideoScrub
    \/ VideoRender
    \/ VideoSleep
    \/ VideoCancel

Spec == Init /\ [][Next]_vars

\* The resolver alone, over every address of at most MaxLen characters.
InitResolve ==
    /\ pc = "resolve"
    /\ device \in {None} \cup {Some(a) : a \in Addresses}
    /\ position = None
    /\ Idle

\* One call of get_airplay_device(device).
Resolve ==
    /\ pc = "resolve"
    /\ \E found \in Answers(device) :
         LET r == get_airplay_device(device, found)
         IN  /\ ap' = r.ap
             /\ error' = r.raised
             /\ finds' = finds \o r.finds
             /\ devices' = r.devices
    /\ pc' = "resolved"
    /\ UNCHANGED <<cmd, device, exitcode, path, calls>>
    /\ UNCHANGED photoVars
    /\ UNCHANGED screenVars
    /\ UNCHANGED videoVars

NextResolve == Resolve

SpecResolve == InitResolve /\ [][NextResolve]_vars

\* The whole numbers of seconds given to humanize_seconds: every one up to
\* MaxSecs, and some of a hundred hours and more.
SecondsArgs == (0..MaxSecs) \cup {360000 + k : k \in {0, 59, 3661}}

\* The formatter alone, lines 42-46, on the position of a playback.
InitHumanize ==
    /\ pc = "humanize"
    /\ device = None
    /\ position \in {Some(k) : k \in SecondsArgs}
    /\ Idle

\* lines 191-192: the text of the time is made and put in the label.
Humanize ==
    /\ pc = "humanize"
    /\ bar' = [bar EXCEPT !.label = <<humanize_seconds(TheVal(position))>>]
    /\ pc' = "humanized"
    /\ UNCHANGED <<cmd, exitcode, path, calls, state, duration, position, ev, info,
                   iter, evcount, sawStopped, carried, reason>>
    /\ UNCHANGED resolverVars
    /\ UNCHANGED photoVars
    /\ UNCHANGED screenVars

NextHumanize == Humanize

SpecHumanize == InitHumanize /\ [][NextHumanize]_vars

\* ------------------------------------------------------------------ properties

Last(q) == q[Len(q)]

Ops(q) == [k \in 1..Len(q) |-> q[k][1]]

Count(q, op) == Cardinality({k \in 1..Len(q) : q[k][1] = op})

\* The scrub polls issued since the last call of ap.events.
RECURSIVE ScrubsSinceEvents(_)
ScrubsSinceEvents(q) ==
    IF q = <<>> \/ Last(q)[1] = "events" THEN 0
    ELSE (IF Last(q)[1] = "scrub" THEN 1 ELSE 0)
            + ScrubsSinceEvents(SubSeq(q, 1, Len(q) - 1))

\* C1, as claimed: once a 'stopped' event has been processed the loop ends in
\* that iteration, whatever events follow it: the iteration goes on to no
\* scrub, render or sleep.
C1_StoppedEventEndsLoop == sawStopped => pc \in {"video_drain", "done"}

\* C1, amended: once the state left by a drain is 'stopped' (the last event
\* of the drain that carries a state is 'stopped') the loop ends in that
\* iteration, with no scrub, render or sleep after the drain.
C1_StoppedStateEndsLoop ==
    /\ state = "stopped" => pc \in {"video_drain", "done"}
    /\ reason = "stopped" =>
          /\ pc = "done"
          /\ state = "stopped"
          /\ Last(Ops(calls)) = "events"

C1_Witness == reason = "stopped" /\ evcount >= 2 /\ iter >= 1

\* Discovery was asked and answered none or several devices.
ResolutionFailed == finds # <<>> /\ Len(devices) # 1

\* C3, as claimed: a failed resolution exits non-zero with no receiver
\* operation issued, and every other run exits with status zero.
C3_NonZeroOnlyOnFailedResolution ==
    /\ ResolutionFailed => calls = <<>>
    /\ pc = "done" =>
          IF ResolutionFailed THEN exitcode # Some(0) ELSE exitcode = Some(0)

\* C3, amended: a failed resolution exits non-zero with no receiver operation
\* issued; a photo that cannot be read exits non-zero before any resolution;
\* a run that returns after its stop, or a video session ended by 'stopped'
\* or by cancellation, exits with status zero.
C3_ExitStatus ==
    /\ ResolutionFailed =>
          pc = "done" /\ calls = <<>> /\ exitcode = Some(ExitFailure) /\ ExitFailure # 0
    /\ (pc = "done" /\ cmd = "photo" /\ data = None) =>
          exitcode = Some(ExitFailure) /\ finds = <<>> /\ calls = <<>>
    /\ (pc = "done" /\ calls # <<>> /\ Last(Ops(calls)) = "stop") => exitcode = Some(0)
    /\ (pc = "done" /\ reason \in {"stopped", "cancelled"}) => exitcode = Some(0)

C3_Witness ==
    /\ pc = "done"
    /\ cmd = "video"
    /\ Len(devices) >= 2
    /\ error # None
    /\ exitcode = Some(ExitFailure)

\* C4: a cancellation ends the loop, and neither it nor anything after it
\* issues an operation to the receiver, a stop in particular.
C4_CancelIssuesNothing ==
    [][reason' = "cancelled" => pc' = "done" /\ calls' = calls]_vars

C4_Witness ==
    /\ reason = "cancelled"
    /\ pc = "done"
    /\ state = "playing"
    /\ Count(calls, "scrub") >= 1
    /\ Count(calls, "stop") = 0

\* C5, as claimed: a photo shown with displaySeconds = 0 is sent once and no
\* stop is ever issued.
C5_NoStopWhenZero ==
    (cmd = "photo" /\ seconds = 0 /\ pc = "done" /\ exitcode = Some(0)) =>
        Ops(calls) = <<"photo">>

\* The step takes an event in the drain: TheVal(ev').
Takes == pc' = "video_drain" /\ evcount' = evcount + 1

Unrecognized(st) == st \notin {"loading", "playing", "paused", "stopped"}

C7_StatelessEventIgnored ==
    [][(Takes /\ TheVal(ev').state = None) => UNCHANGED <<state, position, duration>>]_vars

C7_Witness ==
    /\ pc = "video_drain"
    /\ ev = Some([state |-> None, duration |-> Some(100), position |-> Some(10)])
    /\ state = "paused"
    /\ duration = Some(0)
    /\ position = Some(0)

\* C8: an iteration whose drain leaves 'playing' issues exactly one scrub and
\* renders the position and duration of its answer; an iteration whose drain
\* leaves another state issues no scrub.
C8_PollOverridesWhenPlaying ==
    pc \in {"video_render", "video_sleep"} =>
        IF state = "playing"
        THEN /\ ScrubsSinceEvents(calls) = 1
             /\ info # None
             /\ position = Some(TheVal(info).position)
             /\ duration = Some(TheVal(info).duration)
             /\ pc = "video_sleep" =>
                   bar = [label |-> <<"Playing",
                                      humanize_seconds(TheVal(info).position),
                                      humanize_seconds(TheVal(info).duration)>>,
                          pos |-> Percent(TheVal(info).position, TheVal(info).duration)]
        ELSE ScrubsSinceEvents(calls) = 0

C8_Witness ==
    /\ pc = "video_sleep"
    /\ state = "playing"
    /\ evcount = 2
    /\ info = Some([duration |-> 100, position |-> 20])
    /\ bar.label = <<"Playing", <<"0", "0", ":", "0", "0", ":", "2", "0">>,
                      <<"0", "0", ":", "0", "1", ":", "4", "0">>>>
    /\ bar.pos = 20

\* ------------------------------------------------------------------ properties of the resolver

HasColon(a) == \E k \in 1..Len(a) : a[k] = ":"

FirstColon(a) == CHOOSE n \in 1..Len(a) : a[n] = ":" /\ \A m \in 1..(n - 1) : a[m] # ":"

\* The text after the first colon of a, and the text before it.
AfterColon(a) == SubSeq(a, FirstColon(a) + 1, Len(a))

BeforeColon(a) == SubSeq(a, 1, FirstColon(a) - 1)

\* C2: without an address, discovery is asked once, in fast mode; no answer
\* gives no receiver, one answer gives that receiver, and several give the
\* error that lists every candidate in the order of discovery and no receiver.
C2_DiscoveryOutcome ==
    (pc = "resolved" /\ device = None) =>
        /\ finds = <<TRUE>>
        /\ Len(devices) = 0 => ap = None /\ error = None
        /\ Len(devices) = 1 => ap = Some(devices[1]) /\ error = None
        /\ Len(devices) >= 2 =>
              /\ ap = None
              /\ error # None
              /\ Len(TheVal(error).lines) = Len(devices)
              /\ \A k \in 1..Len(devices) :
                    TheVal(error).lines[k] =
                        <<devices[k].name, devices[k].host, devices[k].port>>

C2_Witness ==
    /\ pc = "resolved"
    /\ device = None
    /\ Len(devices) = 3
    /\ devices[1] # devices[2]
    /\ ap = None
    /\ error # None

\* C9: an address host:N, N an integer in the text after the first colon,
\* gives the receiver of that host and port N, and discovery is not asked.
C9_HostAndPort ==
    (pc = "resolved" /\ device # None /\ HasColon(TheVal(device))
                     /\ int(AfterColon(TheVal(device))) # None) =>
        /\ ap # None
        /\ TheVal(ap).host = BeforeColon(TheVal(device))
        /\ TheVal(ap).port = TheVal(int(AfterColon(TheVal(device))))
        /\ TheVal(ap).host \o <<":">> \o AfterColon(TheVal(device)) = TheVal(device)
        /\ ~HasColon(TheVal(ap).host)
        /\ finds = <<>>
        /\ error = None

C9_Witness ==
    /\ pc = "resolved"
    /\ device = Some(<<"h", ":", "7", "0">>)
    /\ ap = Some([name |-> None, host |-> <<"h">>, port |-> 70])

\* C10: an address without a colon, or whose text after the first colon is
\* no integer, never fails: it gives the whole address as host, with port 7000.
C10_FallbackToDefaultPort ==
    (pc = "resolved" /\ device # None
        /\ (HasColon(TheVal(device)) => int(AfterColon(TheVal(device))) = None)) =>
        /\ ap = Some([name |-> None, host |-> TheVal(device), port |-> 7000])
        /\ finds = <<>>
        /\ error = None

C10_Witness ==
    /\ pc = "resolved"
    /\ device = Some(<<"h", ":", "h", ":", "7">>)
    /\ ap = Some([name |-> None, host |-> <<"h", ":", "h", ":", "7">>, port |-> 7000])

\* C11, as claimed: the receiver resolved from an explicit address has a
\* positive port, whatever the address.
C11_PortPositive ==
    (pc = "resolved" /\ device # None) => ap # None /\ TheVal(ap).port > 0

\* The bar has just been drawn with times.
DrewTimes == pc = "video_sleep" /\ ShowsTimes(state)

\* C12, as claimed: the pos of the bar is always within 0..100, also when the
\* receiver reports a position greater than the duration.
C12_PercentWithin0To100 == cmd = "video" => bar.pos \in 0..100

\* C12, amended: the pos of the bar is never negative; drawn from a position
\* that is at most the duration (or with duration 0) it is within 0..100, and
\* drawn from a position greater than the duration it is 100 or more.
C12_PercentBounds ==
    /\ cmd = "video" => bar.pos >= 0
    /\ DrewTimes =>
          /\ bar.pos = Percent(TheVal(position), TheVal(duration))
          /\ (TheVal(duration) = 0 \/ TheVal(position) <= TheVal(duration)) =>
                bar.pos \in 0..100
          /\ (TheVal(duration) > 0 /\ TheVal(position) > TheVal(duration)) =>
                bar.pos >= 100

C12_Witness ==
    /\ DrewTimes
    /\ position = Some(100)
    /\ duration = Some(20)
    /\ bar.pos = 500

\* C13: drawn with duration 0 the pos of the bar is 0, whatever the position,
\* and the monitor goes on: no error leaves the loop.
C13_ZeroDurationGivesZero ==
    (DrewTimes /\ duration = Some(0)) =>
        /\ bar.pos = 0
        /\ exitcode = None
        /\ reason = ""

C13_Witness ==
    /\ DrewTimes
    /\ state = "playing"
    /\ duration = Some(0)
    /\ position = Some(20)
    /\ bar.pos = 0
    /\ iter >= 1

\* The session has started and no event or poll has been processed yet.
AtSessionStart == pc = "video_events" /\ iter = 0

\* C14, as claimed: a session starts with state loading, duration 0 and
\* position 0, whatever start position it was given.
C14_StartsAtZero ==
    AtSessionStart => state = "loading" /\ duration = Some(0) /\ position = Some(0)

\* C14, amended: a session starts with state loading, duration 0 and the
\* position it was given as start position, the one sent with play.
C14_StartsAtStartPosition ==
    AtSessionStart =>
        /\ state = "loading"
        /\ duration = Some(0)
        /\ Last(calls)[1] = "play"
        /\ position = Some(Last(calls)[3])

C14_Witness ==
    /\ AtSessionStart
    /\ Last(calls)[3] = 10
    /\ position = Some(10)
    /\ state = "loading"

\* C15: a photo shown for displaySeconds > 0 is sent exactly once, then held
\* for displaySeconds ticks of one second, then stopped exactly once; the stop
\* never precedes the photo and nothing follows the stop.
C15_PhotoHoldStop ==
    (cmd = "photo" /\ seconds > 0) =>
        /\ pc = "photo_send" => calls = <<>>
        /\ pc = "photo_hold" => Ops(calls) = <<"photo">> /\ i <= seconds
        /\ (pc = "done" /\ ap # None) =>
              /\ Ops(calls) = <<"photo", "stop">>
              /\ calls[1] = <<"photo", TheVal(data)>>
              /\ i = seconds

C15_Witness ==
    /\ cmd = "photo"
    /\ pc = "done"
    /\ seconds = 2
    /\ i = 2
    /\ Ops(calls) = <<"photo", "stop">>

\* C16: in the screen command every operation on the receiver is either a
\* frame, the capture made for it in the same pass, sent while the clock read
\* by the test of the loop is below durationSeconds, or the one stop, issued
\* when the clock has reached durationSeconds; the stop ends the command, so
\* no frame follows it.
C16_FramesThenOneStop ==
    [][(cmd' = "screen" /\ calls' # calls) =>
          /\ Count(calls, "stop") = 0
          /\ \/ /\ elapsed < seconds
                /\ shots' = shots + 1
                /\ data' = Some(<<"screen.png", shots'>>)
                /\ calls' = Append(calls, <<"photo", TheVal(data')>>)
                /\ pc' = "screen_loop"
             \/ /\ elapsed >= seconds
                /\ calls' = Append(calls, <<"stop">>)
                /\ Count(calls, "photo") = shots
                /\ pc' = "done"
                /\ exitcode' = Some(0)]_vars

C16_Witness ==
    /\ cmd = "screen"
    /\ pc = "done"
    /\ shots >= 3
    /\ elapsed >= seconds
    /\ Ops(calls) = [k \in 1..(shots + 1) |-> IF k <= shots THEN "photo" ELSE "stop"]
    /\ calls[2] = <<"photo", <<"screen.png", 2>>>>

\* C17: the step that starts playback issues, for a locator that names a file
\* on the local disk, one serve of that locator and then one play of the
\* locator serve returned, and for any other locator (a remote URL) one play
\* of the locator as given and no serve; these are the first operations on the
\* receiver, so they precede every drain of events and every scrub, and play
\* and serve are never issued again.
C17_ServeThenPlayOnce ==
    /\ [][(pc = "video_play" /\ pc' # pc) =>
            /\ calls = <<>>
            /\ IF Exists(path)
               THEN calls' = <<<<"serve", path>>,
                               <<"play", Serve(path), TheVal(position)>>>>
               ELSE calls' = <<<<"play", path, TheVal(position)>>>>]_vars
    /\ []((cmd = "video" /\ calls # <<>>) =>
            /\ Count(calls, "play") = 1
            /\ Count(calls, "serve") <= 1
            /\ \A k \in 1..Len(calls) :
                 calls[k][1] \in {"events", "scrub"} =>
                   \E m \in 1..(k - 1) : calls[m][1] = "play")

C17_Witness ==
    /\ cmd = "video"
    /\ Ops(calls) = <<"serve", "play", "events", "scrub", "events">>
    /\ calls[1] = <<"serve", "movie.mp4">>
    /\ calls[2] = <<"play", "http://local/movie.mp4", 10>>

C17_WitnessRemote ==
    /\ cmd = "video"
    /\ Ops(calls) = <<"play", "events", "scrub", "events">>
    /\ calls[1] = <<"play", "http://host/movie.mp4", 0>>

\* C18, as claimed: whenever the progress display is about to be drawn in the
\* Playing or Paused state, position and duration are both defined and
\* non-negative, also when events omitted those fields.
C18_TimesDefinedAtRender ==
    (pc = "video_render" /\ ShowsTimes(state)) =>
        /\ position # None
        /\ duration # None
        /\ TheVal(position) >= 0
        /\ TheVal(duration) >= 0

\* The state the drain has arrived at: the state of the last event that
\* carried one, and the state before the drain while no event has.
LastWriter(before) == IF carried' = None THEN before ELSE TheVal(carried')

\* C19: a drain starts with the state of the previous iteration, every event
\* of the drain leaves the state equal to the state of the last event of the
\* drain that carried one (the state before the drain if none has), and when
\* the events are exhausted the loop ends exactly if that state is stopped,
\* polls exactly if it is playing and otherwise goes on to render, whatever
\* states the drain passed through.
C19_LastWriterWins ==
    [][/\ (pc = "video_events" /\ pc' = "video_drain") =>
            carried' = None /\ state' = state
       /\ (pc = "video_drain" /\ pc' = "video_drain") =>
            state' = LastWriter(state)
       /\ (pc = "video_drain" /\ pc' # "video_drain" /\ reason' # "cancelled") =>
            /\ state' = state /\ carried' = carried
            /\ state = LastWriter(state)
            /\ pc' = (IF state = "stopped" THEN "done"
                      ELSE IF state = "playing" THEN "video_scrub"
                      ELSE "video_render")]_vars

C19_Witness ==
    /\ pc = "video_render"
    /\ evcount = 2
    /\ sawStopped
    /\ carried = Some("paused")
    /\ state = "paused"

\* ------------------------------------------------------------------ properties of the formatter

\* The text humanize_seconds has made, and its three fields.
Humanized == bar.label[1]

HoursField == BeforeColon(Humanized)

MinutesField == BeforeColon(AfterColon(Humanized))

SecondsField == AfterColon(AfterColon(Humanized))

\* The fields are decimal numbers with the values of hours, minutes and
\* seconds of s.
FieldsOf(s) ==
    /\ HasColon(Humanized) /\ HasColon(AfterColon(Humanized))
    /\ AllDigits(HoursField) /\ AllDigits(MinutesField) /\ AllDigits(SecondsField)
    /\ DigitsVal(HoursField, 0) = s \div 3600
    /\ DigitsVal(MinutesField, 0) = (s \div 60) % 60
    /\ DigitsVal(SecondsField, 0) = s % 60

\* C20, as claimed: for every whole number of seconds s >= 0 the text is
\* three fields of two digits each, hours = s div 3600, minutes =
\* (s div 60) mod 60 and seconds = s mod 60, joined by colons.
C20_TwoDigitFields ==
    pc = "humanized" =>
        /\ FieldsOf(TheVal(position))
        /\ Len(HoursField) = 2 /\ Len(MinutesField) = 2 /\ Len(SecondsField) = 2

\* C20, amended: the three fields have those values and are joined by colons;
\* minutes and seconds have two digits, and hours has two digits, padded with
\* a zero, below a hundred hours and as many digits as the number needs, with
\* no padding, from a hundred hours on.  3661 gives 01:01:01, 0 gives
\* 00:00:00 and 59 gives 00:00:59.
C20_HumanizeFields ==
    pc = "humanized" =>
        LET s == TheVal(position)
        IN  /\ FieldsOf(s)
            /\ Len(MinutesField) = 2 /\ Len(SecondsField) = 2
            /\ s < 360000 => Len(HoursField) = 2
            /\ s >= 360000 => Len(HoursField) > 2 /\ HoursField[1] # "0"
            /\ s = 3661 => Humanized = <<"0", "1", ":", "0", "1", ":", "0", "1">>
            /\ s = 0 => Humanized = <<"0", "0", ":", "0", "0", ":", "0", "0">>
            /\ s = 59 => Humanized = <<"0", "0", ":", "0", "0", ":", "5", "9">>

C20_Witness ==
    /\ pc = "humanized"
    /\ position = Some(3661)
    /\ Humanized = <<"0", "1", ":", "0", "1", ":", "0", "1">>

====
